---- MODULE Spec2Model ----
(***************************************************************************)
(* Model of the Toolbelt CLI (src/toolbelt): the process executor          *)
(* utils/sh.py, the `dev` subcommands commands/dev.py and the project      *)
(* bootstrappers commands/init.py.                                         *)
(*                                                                         *)
(* One CLI invocation at a time runs against a single project directory    *)
(* whose contents (fs) persist between invocations.  External tools are    *)
(* black boxes: the model draws their presence and their exit codes from   *)
(* small sets and records every call of sh.run and every log line.         *)
(***************************************************************************)
EXTENDS Integers, Sequences, FiniteSets, TLC

\* ---------------------------------------------------------------- bounds
MaxRuns == 2          \* CLI invocations in one behaviour

\* exit codes an external process ends with: success and two kinds of failure
ExitCodes == {0, 1, 2}
NoCode == 0 - 1       \* "no process was spawned"
Paths == {".", "src"}
PY == "python"        \* sys.executable

VARIABLES fs, inv, pc, calls, logs, steps, exit, runs, venvBuilds

vars == <<fs, inv, pc, calls, logs, steps, exit, runs, venvBuilds>>

\* ------------------------------------------------------- utils/log.py
Log(level, text) == [level |-> level, text |-> text, code |-> NoCode, cmd |-> <<>>]

\* log.err(f"Command failed ({e.code}): {' '.join(e.cmd)}")
ErrLine(code, cmd) == [level |-> "err", text |-> "Command failed", code |-> code, cmd |-> cmd]

\* ------------------------------------------------------- utils/sh.py
\* which(bin_name): the path of the executable, or None
which(present, bin_name) == bin_name \in present

\* run(cmd, check) with the spawned process exiting with `code`; `found` is
\* FALSE when the executable cmd[0] does not exist, and then subprocess.run
\* raises FileNotFoundError before any process exists.
run_always_raises(cmd, check, found, code) ==
  [cmd |-> cmd, check |-> check,
   code |-> IF found THEN code ELSE NoCode,
   raised |-> IF ~found THEN "FileNotFoundError"
              ELSE IF code # 0 THEN "ShellError" ELSE "none"]

run(cmd, check, found, code) ==
  [cmd |-> cmd, check |-> check,
   code |-> IF found THEN code ELSE NoCode,
   raised |-> IF ~found THEN "FileNotFoundError"
              ELSE IF check /\ code # 0 THEN "ShellError" ELSE "none"]

\* ------------------------------------------------------ commands/dev.py
\* the result of a handler: the calls it made, its log lines, its exit status
Result(c, l, e) == [calls |-> c, logs |-> l, exit |-> e]

\* except sh.ShellError as e: ... log.err(...); raise SystemExit(1)
shell_error_swallowed(done, l, call) ==
  Result(Append(done, call), l \o <<ErrLine(call.code, call.cmd)>>, 0)

shell_error(done, l, call) ==
  Result(Append(done, call), l \o <<ErrLine(call.code, call.cmd)>>, 1)

\* lint: which linter the if/elif chain picks ("none" for the else branch)
pick_linter(present) ==
  IF "ruff" \in present THEN "ruff"
  ELSE IF "flake8" \in present THEN "flake8"
  ELSE "none"

\* lint: the argument vector built for the picked linter
lint_cmd_fix_everywhere(tool, path, fix) ==
  IF tool = "ruff"
  THEN <<PY, "-m", "ruff", "check", path>> \o (IF fix THEN <<"--fix">> ELSE <<>>)
  ELSE <<PY, "-m", "flake8", path>> \o (IF fix THEN <<"--fix">> ELSE <<>>)

lint_cmd(tool, path, fix) ==
  IF tool = "ruff"
  THEN <<PY, "-m", "ruff", "check", path>> \o (IF fix THEN <<"--fix">> ELSE <<>>)
  ELSE <<PY, "-m", "flake8", path>>

lint(path, fix, present, code) ==
  LET tool == pick_linter(present) IN
  IF tool = "none"
  THEN Result(<<>>, <<Log("warn", "No linter found (ruff/flake8)")>>, 0)
  ELSE LET l0 == <<Log("info", IF tool = "ruff" THEN "Running ruff"
                               ELSE "ruff not found; falling back to flake8")>>
           call == run(lint_cmd(tool, path, fix), TRUE, TRUE, code)
       IN IF call.raised = "ShellError"
          THEN shell_error(<<>>, l0, call)
          ELSE Result(<<call>>, l0 \o <<Log("ok", "Lint completed")>>, 0)

\* format: the argument vectors of black and isort
black_cmd(path, check, verbose) ==
  <<PY, "-m", "black", path>>
    \o (IF check THEN <<"--check", "--diff">> ELSE <<>>)
    \o (IF verbose THEN <<"--verbose">> ELSE <<>>)

isort_cmd(path, check, verbose) ==
  <<PY, "-m", "isort", path>>
    \o (IF check THEN <<"--check-only", "--diff">> ELSE <<>>)
    \o (IF verbose THEN <<"--verbose">> ELSE <<>>)

\* format: black is run without a presence test, isort only when importable;
\* ran_any is TRUE as soon as black returned normally.
format(path, check, verbose, present, codeBlack, codeIsort) ==
  LET l0 == <<Log("info", "Running black")>>
      c1 == run(black_cmd(path, check, verbose), TRUE, TRUE, codeBlack)
  IN IF c1.raised = "ShellError"
     THEN shell_error(<<>>, l0, c1)
     ELSE IF "isort" \in present
          THEN LET l1 == l0 \o <<Log("info", "Running isort")>>
                   c2 == run(isort_cmd(path, check, verbose), TRUE, TRUE, codeIsort)
               IN IF c2.raised = "ShellError"
                  THEN shell_error(<<c1>>, l1, c2)
                  ELSE Result(<<c1, c2>>, l1 \o <<Log("ok", "Formatting completed")>>, 0)
          ELSE Result(<<c1>>, l0 \o <<Log("ok", "Formatting completed")>>, 0)

\* "--maxfail=1" in cmd
Contains(s, x) == \E i \in 1 .. Len(s) : s[i] = x

\* test: the pytest argument vector
test_cmd_unguarded(path, verbose, fail_fast, nocapture, ci) ==
  LET c0 == <<"pytest", path>>
      c1 == c0 \o (IF ci THEN <<"--maxfail=1", "--disable-warnings", "--color=no", "--tb=short">>
                   ELSE <<"--tb=short", "--color=yes">>)
      c2 == c1 \o (IF verbose THEN <<"-v">> ELSE <<"-q">>)
      c3 == c2 \o (IF fail_fast THEN <<"--maxfail=1">> ELSE <<>>)
  IN c3 \o (IF nocapture THEN <<"-s">> ELSE <<>>)

test_cmd(path, verbose, fail_fast, nocapture, ci) ==
  LET c0 == <<"pytest", path>>
      c1 == c0 \o (IF ci THEN <<"--maxfail=1", "--disable-warnings", "--color=no", "--tb=short">>
                   ELSE <<"--tb=short", "--color=yes">>)
      c2 == c1 \o (IF verbose THEN <<"-v">> ELSE <<"-q">>)
      c3 == c2 \o (IF fail_fast /\ ~Contains(c2, "--maxfail=1") THEN <<"--maxfail=1">> ELSE <<>>)
  IN c3 \o (IF nocapture THEN <<"-s">> ELSE <<>>)

test(path, verbose, fail_fast, nocapture, ci, present, code) ==
  LET py == which(present, "pytest")
      l0 == <<Log("info", IF py THEN "Running pytest"
                          ELSE "pytest not found; running Python unittest discovery")>>
      cmd == IF py THEN test_cmd(path, verbose, fail_fast, nocapture, ci)
             ELSE <<PY, "-m", "unittest", "discover", "-s", path>>
      call == run(cmd, TRUE, TRUE, code)
  IN IF call.raised = "ShellError"
     THEN shell_error(<<>>, l0, call)
     ELSE Result(<<call>>, l0 \o <<Log("ok", "Tests completed")>>, 0)

\* ----------------------------------------------------- commands/init.py
\* The project directory: the files and directories the bootstrappers and the
\* tools they call create in it.
FsInit == [dir |-> FALSE, git |-> FALSE, gitignore |-> "absent", venv |-> FALSE,
           reqs |-> "absent", installed |-> FALSE, pkgjson |-> FALSE,
           staged |-> FALSE, commits |-> 0]

\* what a block of a bootstrapper leaves behind; raised is TRUE when an
\* exception leaves the block
Block(f, c, l, raised) == [fs |-> f, calls |-> c, logs |-> l, raised |-> raised]

\* ensure_dir(path): mkdir(parents=True, exist_ok=True)
ensure_dir(f) == [f EXCEPT !.dir = TRUE]

\* write_gitignore(project_root): reads the template and write_text()s it to
\* .gitignore; io is FALSE when reading or writing raises OSError
write_gitignore(f, io) ==
  IF io THEN Block([f EXCEPT !.gitignore = "template"], <<>>, <<Log("ok", "Added .gitignore")>>, FALSE)
  ELSE Block(f, <<>>, <<>>, TRUE)

\* copy_and_install_reqs(project_root, venv_dir, empty_reqs).  No caller in
\* the package: init_python calls the name copy_requirements instead.
copy_and_install_reqs(f, empty_reqs, code) ==
  IF empty_reqs
  THEN Block([f EXCEPT !.reqs = IF f.reqs = "absent" THEN "empty" ELSE f.reqs],
             <<>>, <<>>, FALSE)
  ELSE LET f1 == [f EXCEPT !.reqs = "template"]
           l1 == <<Log("info", "requirements.txt created with common dev tools"),
                   Log("info", "Installing requirements")>>
           call == run(<<"venv/bin/pip", "install", "-r", "requirements.txt">>, TRUE, f.venv, code)
       IN IF call.raised # "none"
          THEN Block(f1, <<call>>, l1, TRUE)
          ELSE Block([f1 EXCEPT !.installed = TRUE], <<call>>,
                     l1 \o <<Log("ok", "Requirements installed")>>, FALSE)

\* try: sh.ensure_bin("git"); if no .git: sh.run(["git", "init"])
\* except Exception as e: log.warn("Git init skipped")
git_init_block(f, present, code) ==
  IF ~which(present, "git")
  THEN Block(f, <<>>, <<Log("warn", "Git init skipped")>>, FALSE)
  ELSE IF ~f.git
       THEN LET call == run(<<"git", "init">>, TRUE, TRUE, code)
                l0 == <<Log("info", "Initializing git repo")>>
            IN IF call.raised # "none"
               THEN Block(f, <<call>>, l0 \o <<Log("warn", "Git init skipped")>>, FALSE)
               ELSE Block([f EXCEPT !.git = TRUE], <<call>>, l0, FALSE)
       ELSE Block(f, <<>>, <<>>, FALSE)

\* try: sh.run(["git","add","."]); sh.run(["git","commit","-m",msg], check=False)
\*      log.ok("Initial commit created")
\* except Exception as e: log.warn("Git commit skipped")
stage_and_commit(f, present, msg, codeAdd, codeCommit) ==
  LET add == run(<<"git", "add", ".">>, TRUE, which(present, "git"), codeAdd) IN
  IF add.raised # "none"
  THEN Block(f, <<add>>, <<Log("warn", "Git commit skipped")>>, FALSE)
  ELSE LET commit == run(<<"git", "commit", "-m", msg>>, FALSE, TRUE, codeCommit)
           f1 == IF codeCommit = 0
                 THEN [f EXCEPT !.staged = FALSE, !.commits = f.commits + 1]
                 ELSE [f EXCEPT !.staged = TRUE]
       IN IF commit.raised # "none"
          THEN Block(f1, <<add, commit>>, <<Log("warn", "Git commit skipped")>>, FALSE)
          ELSE Block(f1, <<add, commit>>, <<Log("ok", "Initial commit created")>>, FALSE)

\* init_npm: which package manager the if/elif chain picks
pick_package_manager_reversed(present) ==
  IF which(present, "yarn") THEN "yarn"
  ELSE IF which(present, "pnpm") THEN "pnpm"
  ELSE IF which(present, "npm") THEN "npm"
  ELSE "none"

pick_package_manager(present) ==
  IF which(present, "npm") THEN "npm"
  ELSE IF which(present, "pnpm") THEN "pnpm"
  ELSE IF which(present, "yarn") THEN "yarn"
  ELSE "none"

package_init_cmd(tool) ==
  IF tool = "npm" THEN <<"npm", "init", "-y">>
  ELSE IF tool = "pnpm" THEN <<"pnpm", "init">>
  ELSE <<"yarn", "init", "-y">>

\* try: <package manager init>  except Exception as e: log.err(str(e)); raise SystemExit(1)
package_init_block(f, present, code) ==
  LET tool == pick_package_manager(present) IN
  IF tool = "none"
  THEN Block(f, <<>>, <<Log("warn", "No Node package manager found (npm/pnpm/yarn). Skipping init.")>>, FALSE)
  ELSE LET call == run(package_init_cmd(tool), TRUE, TRUE, code)
           l0 == <<Log("info", IF tool = "npm" THEN "Running npm init -y"
                               ELSE IF tool = "pnpm" THEN "npm not found; using pnpm init"
                               ELSE "npm not found; using yarn init -y")>>
       IN IF call.raised # "none"
          THEN Block(f, <<call>>, l0 \o <<ErrLine(call.code, call.cmd)>>, TRUE)
          ELSE Block([f EXCEPT !.pkgjson = TRUE], <<call>>, l0, FALSE)

\* ------------------------------------------------------------ the CLI
Inv(cmd, path, flags, present) ==
  [cmd |-> cmd, path |-> path, flags |-> flags, present |-> present]

Init ==
  /\ fs = FsInit
  /\ inv = Inv("none", ".", {}, {})
  /\ pc = "idle"
  /\ calls = <<>>
  /\ logs = <<>>
  /\ steps = <<>>
  /\ exit = NoCode
  /\ runs = 0
  /\ venvBuilds = 0

\* a handler of `dev` runs to its end in one step
Finish(i, r) ==
  /\ inv' = i
  /\ calls' = r.calls
  /\ logs' = r.logs
  /\ exit' = r.exit
  /\ steps' = <<>>
  /\ runs' = runs + 1
  /\ UNCHANGED <<fs, pc, venvBuilds>>

\* dev lint [--path P] [--fix]
Lint ==
  /\ pc = "idle" /\ runs < MaxRuns
  /\ \E path \in Paths, fix \in BOOLEAN, present \in SUBSET {"ruff", "flake8"},
        code \in ExitCodes :
       /\ pick_linter(present) = "none" => code = 0      \* no process, no exit code
       /\ Finish(Inv("lint", path, IF fix THEN {"fix"} ELSE {}, present),
              lint(path, fix, present, code))

\* dev format [--path P] [--check] [--verbose]; `python -m black` exits
\* non-zero when the module black is not installed
Format ==
  /\ pc = "idle" /\ runs < MaxRuns
  /\ \E path \in Paths, check \in BOOLEAN, verbose \in BOOLEAN,
        present \in SUBSET {"black", "isort"},
        codeBlack \in ExitCodes, codeIsort \in ExitCodes :
       /\ "black" \notin present => codeBlack # 0
       /\ ("isort" \notin present \/ codeBlack # 0) => codeIsort = 0   \* isort is not run
       /\ Finish(Inv("format", path,
                     (IF check THEN {"check"} ELSE {}) \cup (IF verbose THEN {"verbose"} ELSE {}),
                     present),
                 format(path, check, verbose, present, codeBlack, codeIsort))

\* dev test [--path P] [-v] [-x] [-s] [--ci]
Test ==
  /\ pc = "idle" /\ runs < MaxRuns
  /\ \E path \in Paths, flags \in SUBSET {"verbose", "fail_fast", "nocapture", "ci"},
        present \in SUBSET {"pytest"}, code \in ExitCodes :
       Finish(Inv("test", path, flags, present),
              test(path, "verbose" \in flags, "fail_fast" \in flags,
                   "nocapture" \in flags, "ci" \in flags, present, code))

\* a bootstrapper starts: ensure_dir(project_root); log.header(...)
Start(cmd, flags, present, next) ==
  /\ pc = "idle" /\ runs < MaxRuns
  /\ inv' = Inv(cmd, ".", flags, present)
  /\ fs' = ensure_dir(fs)
  /\ calls' = <<>>
  /\ logs' = <<Log("header", "Bootstrap")>>
  /\ steps' = <<"EnsureDirectory">>
  /\ exit' = NoCode
  /\ runs' = runs + 1
  /\ pc' = next
  /\ UNCHANGED venvBuilds

\* a block of a bootstrapper ran: b is what it did
Step(name, b, next) ==
  /\ fs' = b.fs
  /\ calls' = calls \o b.calls
  /\ logs' = logs \o b.logs
  /\ steps' = Append(steps, name)
  /\ pc' = IF b.raised THEN "idle" ELSE next
  /\ exit' = IF b.raised THEN 1 ELSE exit
  /\ UNCHANGED <<inv, runs>>

\* init python [--name N] [--empty-reqs]
init_python_start ==
  \E empty_reqs \in BOOLEAN, present \in SUBSET {"git"} :
    Start("init_python", IF empty_reqs THEN {"empty_reqs"} ELSE {}, present, "py_git")

init_python_git ==
  /\ pc = "py_git"
  /\ \E code \in ExitCodes :
       Step("InitVersionControl", git_init_block(fs, inv.present, code), "py_gitignore")
  /\ UNCHANGED venvBuilds

init_python_gitignore ==
  /\ pc = "py_gitignore"
  /\ \E io \in BOOLEAN :
       LET b == write_gitignore(fs, io) IN
       Step("WriteIgnoreFile",
            IF b.raised THEN b ELSE [b EXCEPT !.logs = @ \o <<Log("ok", "Wrote .gitignore")>>],
            "py_venv")
  /\ UNCHANGED venvBuilds

\* if not venv_dir.exists(): venv.EnvBuilder(with_pip=True).create(venv_dir);
\* io is FALSE when the builder raises
init_python_venv ==
  /\ pc = "py_venv"
  /\ \E io \in BOOLEAN :
       IF fs.venv
       THEN /\ Step("CreateIsolatedEnvironment", Block(fs, <<>>, <<>>, FALSE), "py_reqs")
            /\ UNCHANGED venvBuilds
       ELSE /\ Step("CreateIsolatedEnvironment",
                    IF io
                    THEN Block([fs EXCEPT !.venv = TRUE], <<>>,
                               <<Log("info", "Creating virtual environment (venv)"),
                                 Log("ok", "Virtual environment created")>>, FALSE)
                    ELSE Block(fs, <<>>, <<Log("info", "Creating virtual environment (venv)")>>, TRUE),
                    "py_reqs")
            /\ venvBuilds' = IF io THEN venvBuilds + 1 ELSE venvBuilds

\* copy_requirements(project_root, venv_dir, empty_reqs): the module defines
\* no such name (it defines copy_and_install_reqs), so the call raises
\* NameError, which nothing catches; the interpreter exits with status 1 and
\* the rest of init_python (git add, git commit, "Done!") never runs.
init_python_requirements ==
  /\ pc = "py_reqs"
  /\ Step("InstallOrWriteDependencyManifest", Block(fs, <<>>, <<>>, TRUE), "py_commit")
  /\ UNCHANGED venvBuilds

\* init npm [--name N]
init_npm_start ==
  \E present \in SUBSET {"git", "npm", "pnpm", "yarn"} :
    Start("init_npm", {}, present, "npm_git")

init_npm_git ==
  /\ pc = "npm_git"
  /\ \E code \in ExitCodes :
       Step("InitVersionControl", git_init_block(fs, inv.present, code), "npm_pm")
  /\ UNCHANGED venvBuilds

init_npm_package ==
  /\ pc = "npm_pm"
  /\ \E code \in ExitCodes :
       Step("PackageInit", package_init_block(fs, inv.present, code), "npm_gitignore")
  /\ UNCHANGED venvBuilds

init_npm_gitignore ==
  /\ pc = "npm_gitignore"
  /\ \E io \in BOOLEAN :
       LET b == write_gitignore(fs, io) IN
       Step("WriteIgnoreFile",
            IF b.raised THEN b ELSE [b EXCEPT !.logs = @ \o <<Log("ok", "Wrote .gitignore")>>],
            "npm_commit")
  /\ UNCHANGED venvBuilds

\* git add / git commit, then log.ok("Done!") and the handler returns;
\* git add exits 0 only inside a repository
init_npm_commit ==
  /\ pc = "npm_commit"
  /\ \E codeAdd \in ExitCodes, codeCommit \in ExitCodes :
       /\ codeAdd = 0 => fs.git
       /\ LET b == stage_and_commit(fs, inv.present, "Initialize Node project", codeAdd, codeCommit) IN
          /\ fs' = b.fs
          /\ calls' = calls \o b.calls
          /\ logs' = logs \o b.logs \o <<Log("ok", "Done!")>>
          /\ steps' = steps \o <<"StageAndCommit", "Done">>
          /\ pc' = "idle"
          /\ exit' = 0
  /\ UNCHANGED <<inv, runs, venvBuilds>>

\* the user writes their own .gitignore between two invocations
UserEditsGitignore ==
  /\ pc = "idle" /\ runs < MaxRuns
  /\ fs.dir /\ fs.gitignore # "user"
  /\ fs' = [fs EXCEPT !.gitignore = "user"]
  /\ UNCHANGED <<inv, pc, calls, logs, steps, exit, runs, venvBuilds>>

Next ==
  \/ Lint
  \/ Format
  \/ Test
  \/ init_python_start
  \/ init_python_git
  \/ init_python_gitignore
  \/ init_python_venv
  \/ init_python_requirements
  \/ init_npm_start
  \/ init_npm_git
  \/ init_npm_package
  \/ init_npm_gitignore
  \/ init_npm_commit
  \/ UserEditsGitignore

Spec == Init /\ [][Next]_vars

\* ------------------------------------------------------------ properties
Count(s, x) == Cardinality({i \in 1 .. Len(s) : s[i] = x})

\* the tool an argument vector runs: the module of `python -m <module>`,
\* else the executable
ToolOf(cmd) == IF cmd[1] = PY THEN cmd[3] ELSE cmd[1]

Invoked == {ToolOf(calls[i].cmd) : i \in 1 .. Len(calls)}

\* the first candidate of a priority list that is present, as a set
FirstPresent(order, present) ==
  LET hits == {i \in 1 .. Len(order) : order[i] \in present} IN
  IF hits = {} THEN {}
  ELSE {order[CHOOSE i \in hits : \A j \in hits : i <= j]}

Finished == pc = "idle" /\ inv.cmd # "none"

HasLog(level, text) == \E i \in 1 .. Len(logs) : logs[i].level = level /\ logs[i].text = text

Warned == \E i \in 1 .. Len(logs) : logs[i].level = "warn"

LastStep == IF steps = <<>> THEN "none" ELSE steps[Len(steps)]

\* a required filesystem step (writing the ignore file, building the
\* environment) raised
IoFailed == exit = 1 /\ LastStep \in {"WriteIgnoreFile", "CreateIsolatedEnvironment"}

AllCallsSucceeded == \A i \in 1 .. Len(calls) : calls[i].code = 0

Spawned(i) == calls[i].code # NoCode

\* C1: for every call of run(cmd, check) that spawned a process, ShellError is
\* raised if and only if the exit code is non-zero and check is true; with
\* check false the call returns normally whatever the exit code.
C1_RunRaisesIff ==
  \A i \in 1 .. Len(calls) :
    Spawned(i) =>
      /\ (calls[i].raised = "ShellError") <=> (calls[i].check /\ calls[i].code # 0)
      /\ ~calls[i].check => calls[i].raised = "none"

\* a git commit (check=False) exited non-zero and run returned normally
C1_Witness ==
  \E i \in 1 .. Len(calls) :
    /\ Spawned(i) /\ ~calls[i].check /\ calls[i].code # 0 /\ calls[i].raised = "none"
    /\ \E j \in 1 .. Len(calls) : calls[j].check /\ calls[j].code = 0

\* C2: a bootstrap run never changes the content of an ignore file that
\* already exists and never rebuilds an environment directory that already
\* exists.
C2_BootstrapKeepsExisting ==
  [][/\ (pc # "idle" /\ fs.gitignore # "absent") => fs'.gitignore = fs.gitignore
     /\ fs.venv => venvBuilds' = venvBuilds]_vars

\* C3: `init python` on a fresh directory with every tool succeeding runs the
\* six steps in order and completes: directory, repository, ignore file,
\* environment and populated manifest exist, the installer ran on the manifest
\* and exactly one commit was made.
C3_FreshPythonBootstrapCompletes ==
  (/\ Finished /\ inv.cmd = "init_python" /\ runs = 1
   /\ inv.flags = {} /\ inv.present = {"git"}
   /\ AllCallsSucceeded /\ ~IoFailed)
  => /\ exit = 0
     /\ steps = <<"EnsureDirectory", "InitVersionControl", "WriteIgnoreFile",
                  "CreateIsolatedEnvironment", "InstallOrWriteDependencyManifest",
                  "StageAndCommit", "Done">>
     /\ fs.dir /\ fs.git /\ fs.gitignore = "template" /\ fs.venv
     /\ fs.reqs = "template" /\ fs.installed
     /\ \E i \in 1 .. Len(calls) : ToolOf(calls[i].cmd) = "venv/bin/pip"
     /\ fs.commits = 1

\* C4: with pytest present, the argument vector of `dev test` holds
\* --maxfail=1 at most once, and with --ci it holds --maxfail=1,
\* --disable-warnings, --color=no and --tb=short, also when --fail-fast is set.
C4_CiNoDuplicateMaxfail ==
  (inv.cmd = "test" /\ "pytest" \in inv.present) =>
    /\ Len(calls) = 1
    /\ Count(calls[1].cmd, "--maxfail=1") <= 1
    /\ "ci" \in inv.flags =>
         \A f \in {"--maxfail=1", "--disable-warnings", "--color=no", "--tb=short"} :
           Count(calls[1].cmd, f) >= 1

\* --ci together with --fail-fast: one --maxfail=1
C4_Witness ==
  /\ inv.cmd = "test" /\ "pytest" \in inv.present
  /\ {"ci", "fail_fast"} \subseteq inv.flags
  /\ Len(calls) = 1 /\ Count(calls[1].cmd, "--maxfail=1") = 1

\* C5: the linter invoked by `dev lint` is the first of ruff, flake8 that is
\* present and the package manager invoked by `init npm` is the first of npm,
\* pnpm, yarn that is present; no other candidate is invoked.
C5_PriorityOrder ==
  /\ inv.cmd = "lint" =>
       /\ Invoked = FirstPresent(<<"ruff", "flake8">>, inv.present)
       /\ Len(calls) <= 1
  /\ (inv.cmd = "init_npm" /\ Contains(steps, "PackageInit")) =>
       /\ Invoked \cap {"npm", "pnpm", "yarn"} = FirstPresent(<<"npm", "pnpm", "yarn">>, inv.present)
       /\ Cardinality({i \in 1 .. Len(calls) : ToolOf(calls[i].cmd) \in {"npm", "pnpm", "yarn"}}) <= 1

\* npm absent, pnpm and yarn present: pnpm was run
C5_Witness ==
  /\ inv.cmd = "init_npm" /\ Contains(steps, "PackageInit")
  /\ inv.present \cap {"npm", "pnpm", "yarn"} = {"pnpm", "yarn"}
  /\ "pnpm" \in Invoked

\* C6: when no candidate tool of a capability (lint, format, package init) is
\* present, no process is run for it, a warning is emitted, and the command
\* exits 0 unless a later required step fails.
C6_NoToolSkipsWithWarning ==
  /\ (inv.cmd = "lint" /\ inv.present = {}) =>
       calls = <<>> /\ Warned /\ exit = 0
  /\ (inv.cmd = "format" /\ inv.present = {}) =>
       calls = <<>> /\ Warned /\ exit = 0
  /\ (inv.cmd = "init_npm" /\ Contains(steps, "PackageInit")
        /\ inv.present \cap {"npm", "pnpm", "yarn"} = {}) =>
       /\ Invoked \cap {"npm", "pnpm", "yarn"} = {}
       /\ HasLog("warn", "No Node package manager found (npm/pnpm/yarn). Skipping init.")
       /\ (Finished /\ ~IoFailed) => exit = 0

\* C7: `dev lint` with ruff absent and flake8 present runs flake8's base
\* invocation on the given path, the same with and without --fix, and exits 0
\* when flake8 exits 0.
C7_FallbackIgnoresFix ==
  (inv.cmd = "lint" /\ inv.present = {"flake8"}) =>
    /\ Len(calls) = 1
    /\ calls[1].cmd = <<PY, "-m", "flake8", inv.path>>
    /\ calls[1].code = 0 => exit = 0

\* --fix given, flake8 ran clean
C7_Witness ==
  /\ inv.cmd = "lint" /\ inv.present = {"flake8"} /\ "fix" \in inv.flags
  /\ Len(calls) = 1 /\ calls[1].code = 0 /\ exit = 0

\* C8: a `dev` subcommand exits 1 if a tool it invoked exited non-zero and 0
\* otherwise; the first failing tool is the last one invoked and the last log
\* line is the error line with its exit code and argument vector.
C8_DevExitStatus ==
  inv.cmd \in {"lint", "format", "test"} =>
    /\ exit = IF \E i \in 1 .. Len(calls) : calls[i].code # 0 THEN 1 ELSE 0
    /\ \A i \in 1 .. Len(calls) :
         calls[i].code # 0 =>
           /\ i = Len(calls)
           /\ logs[Len(logs)] = ErrLine(calls[i].code, calls[i].cmd)

\* black failed with isort installed: isort was not run, exit status 1
C8_Witness ==
  /\ inv.cmd = "format" /\ "isort" \in inv.present
  /\ Len(calls) = 1 /\ calls[1].code = 2 /\ exit = 1
  /\ logs[Len(logs)] = ErrLine(2, calls[1].cmd)

\* C9: a python bootstrap whose best-effort step failed (git absent, git init
\* or staging failed) logs a warning and still reaches Done when no required
\* step failed.
C9_BestEffortNeverAborts ==
  (/\ Finished /\ inv.cmd = "init_python" /\ ~IoFailed
   /\ \A i \in 1 .. Len(calls) : ToolOf(calls[i].cmd) = "venv/bin/pip" => calls[i].code = 0)
  => /\ LastStep = "Done" /\ exit = 0
     /\ ("git" \notin inv.present \/ ~AllCallsSucceeded) => Warned

\* C10: in a python bootstrap, a failing installer aborts before
\* StageAndCommit and Done; with --empty-reqs an empty manifest is written,
\* the installer is not invoked and the plan proceeds to StageAndCommit.
C10_InstallFailureAbortsElseProceeds ==
  (Finished /\ inv.cmd = "init_python" /\ ~IoFailed) =>
    /\ (\E i \in 1 .. Len(calls) : ToolOf(calls[i].cmd) = "venv/bin/pip" /\ calls[i].code # 0)
         => (~Contains(steps, "StageAndCommit") /\ ~Contains(steps, "Done"))
    /\ "empty_reqs" \in inv.flags =>
         /\ fs.reqs = "empty"
         /\ \A i \in 1 .. Len(calls) : ToolOf(calls[i].cmd) # "venv/bin/pip"
         /\ Contains(steps, "StageAndCommit")

====
